---- MODULE Spec2Model ----
(***************************************************************************)
(* Model of BoxCollectionOptimizer (src/box_collection_optimizer.py) and   *)
(* of the routes of src/app.py that drive it.                              *)
(*                                                                         *)
(* Number representation (all floats of the program are exact rationals    *)
(* here, kept as integers in a fixed unit):                                *)
(*   weekly observations, volume_moyen, fill_level : tenths       (x 10)   *)
(*   fill_score                                    : 1/600                 *)
(*   expected_fill                                 : 1/6000                *)
(*   urgency_score                                 : hundredths   (x 100)  *)
(*   equity_score                                  : tenths       (x 10)   *)
(*   profitability_score                           : 1/1200000             *)
(*   min_score                                     : hundredths   (x 100)  *)
(*   rounded values (round(x, 1))                  : tenths                *)
(* The logistic curve of calculate_urgency_score is tabulated at integer   *)
(* days, rounded to hundredths.                                            *)
(* Time is an integer count of days: the clock advances a day at a time,   *)
(* and timedelta.days is the number of whole days elapsed.                 *)
(***************************************************************************)
EXTENDS Integers, Sequences, FiniteSets, TLC

VARIABLES
    csv_file,       \* the catalog file read by the constructor
    df,             \* self.df, the catalog rows in order
    week_columns,   \* len(self.week_columns)
    last_visit,     \* self.last_visit
    visit_history,  \* self.visit_history
    score_cache,    \* self._score_cache
    cache_valid,    \* self._cache_valid
    now,            \* the clock, in days
    state_file,     \* optimizer_state.json
    log_appended,   \* the rows the last operation appended to visits_log.csv
    call,           \* the operation last run, with its arguments
    ret,            \* what it returned
    threads         \* the visit requests in flight, one per server thread

vars == <<csv_file, df, week_columns, last_visit, visit_history, score_cache,
          cache_valid, now, state_file, log_appended, call, ret, threads>>

-----------------------------------------------------------------------------
(* Bounds of the model *)

MaxId == 2

MaxClock == 1

MaxVisits == 1

MaxRows == 2

BoxIds == 1..MaxId

-----------------------------------------------------------------------------
(* Values *)

\* np.nan in a numeric column: a value outside every numeric range used
NaN == -100000

\* a propagating exception, where a float was expected
Raised == -1000000000

\* a str held by the volume_moyen column (the column became dtype object)
StrValue == -200000

None == [k |-> "None", v |-> 0]

Raise == [k |-> "raise", v |-> 0]

PyInt(n) == [k |-> "int", v |-> n]

PyFloat(n) == [k |-> "float", v |-> n]

PyStr(n) == [k |-> "str", v |-> n]

BadStr == [k |-> "badstr", v |-> 0]

DateTime(t) == [k |-> "datetime", v |-> t]

Min(a, b) == IF a <= b THEN a ELSE b

Max(a, b) == IF a >= b THEN a ELSE b

RECURSIVE SumSeq(_)
SumSeq(s) == IF s = <<>> THEN 0 ELSE Head(s) + SumSeq(Tail(s))

\* the units of the header
FillUnit == 600

ExpectedUnit == 6000

ScoreUnit == 1200000

\* round(x, 1) of a value held in `unit`ths: the nearest tenth, ties to even
Round1(x, unit) ==
    LET tenth == unit \div 10
        q == x \div tenth
        r == x % tenth
    IN  IF 2 * r < tenth THEN q
        ELSE IF 2 * r > tenth THEN q + 1
        ELSE IF q % 2 = 0 THEN q ELSE q + 1

-----------------------------------------------------------------------------
(* The catalog: self.df, a sequence of rows *)

\* self.df[self.df['n_boite'] == box_id]
BoxData(self, box_id) == SelectSeq(self.df, LAMBDA r : r.n_boite = box_id)

\* self.df['n_boite'].values
CatalogIds(self) == {self.df[i].n_boite : i \in 1..Len(self.df)}

get_current_week(self) ==
    LET hasData == {i \in 1..self.week_columns :
                       \E j \in 1..Len(self.df) : self.df[j].weeks[i] # NaN}
    IN  IF hasData = {} THEN 1
        ELSE CHOOSE i \in hasData : \A j \in hasData : j <= i

get_current_week_for_box(self, box_id) ==
    LET box_data == BoxData(self, box_id)
    IN  IF box_data = <<>> THEN 1
        ELSE LET hasData == {i \in 1..self.week_columns :
                                box_data[1].weeks[i] # NaN}
             IN  IF hasData = {} THEN 1
                 ELSE CHOOSE i \in hasData : \A j \in hasData : j <= i

\* np.polyfit(range(n), y, 1)[0] * 0.5, in FillUnit, for n = 2, 3, 4 points
HalfSlope(y) ==
    IF Len(y) = 2 THEN 30 * (y[2] - y[1])
    ELSE IF Len(y) = 3 THEN 15 * (y[3] - y[1])
    ELSE 3 * (3 * y[4] + y[3] - y[2] - 3 * y[1])

calculate_fill_score(self, box_id, current_week) ==
    LET box_data == BoxData(self, box_id)
    IN  IF box_data = <<>> THEN 0
        ELSE LET recent_weeks == Min(4, current_week)
                 recent_scores ==
                     SelectSeq(SubSeq(box_data[1].weeks,
                                      current_week - recent_weeks + 1,
                                      current_week),
                               LAMBDA s : s # NaN)
             IN  IF recent_scores = <<>> THEN 0
                 ELSE LET avg_score == (60 \div Len(recent_scores))
                                          * SumSeq(recent_scores)
                          trend_bonus ==
                              IF Len(recent_scores) >= 2
                              THEN Min(HalfSlope(recent_scores), 2 * FillUnit)
                              ELSE 0
                      IN  Max(0, avg_score + trend_bonus)

\* calculate_fill_score(box_id) with current_week=None
calculate_fill_score_default(self, box_id) ==
    calculate_fill_score(self, box_id, get_current_week_for_box(self, box_id))

calculate_days_since_last_visit(self, box_id) ==
    IF box_id \notin DOMAIN self.last_visit THEN None
    ELSE LET lv == self.last_visit[box_id]
         IN  IF lv = None THEN Raise
             ELSE PyInt(self.now - lv.v)

\* round(100 * 10 / (1 + exp(-0.5 * (days - 7)))) for days = -4 .. 22
LogisticTable ==
    <<4, 7, 11, 18, 29, 47, 76, 119, 182, 269, 378, 500, 622, 731, 818,
      881, 924, 953, 971, 982, 989, 993, 996, 998, 998, 999, 999>>

Logistic(days) ==
    IF days < -4 THEN (IF days >= -6 THEN 2 ELSE IF days >= -8 THEN 1 ELSE 0)
    ELSE IF days > 22 THEN 1000
    ELSE LogisticTable[days + 5]

\* mutant: the logistic curve without the floors of the first days
calculate_urgency_score_NoFloor(self, box_id) ==
    LET days_since == calculate_days_since_last_visit(self, box_id)
    IN  IF days_since = Raise THEN Raised
        ELSE IF days_since = None
        THEN LET box_data == BoxData(self, box_id)
             IN  IF box_data # <<>> /\ box_data[1].volume_moyen = StrValue
                 THEN Raised
                 ELSE IF box_data # <<>> /\ box_data[1].volume_moyen # NaN
                         /\ box_data[1].volume_moyen > 0
                 THEN Min(box_data[1].volume_moyen * 8, 800)
                 ELSE 300
        ELSE LET d == days_since.v
                 urgency == Logistic(d)
                 floored == urgency
             IN  Min(floored, 1000)

calculate_urgency_score(self, box_id) ==
    LET days_since == calculate_days_since_last_visit(self, box_id)
    IN  IF days_since = Raise THEN Raised
        ELSE IF days_since = None
        THEN LET box_data == BoxData(self, box_id)
             IN  IF box_data # <<>> /\ box_data[1].volume_moyen = StrValue
                 THEN Raised
                 ELSE IF box_data # <<>> /\ box_data[1].volume_moyen # NaN
                         /\ box_data[1].volume_moyen > 0
                 THEN Min(box_data[1].volume_moyen * 8, 800)
                 ELSE 300
        ELSE LET d == days_since.v
                 urgency == Logistic(d)
                 floored == IF d <= 1 THEN Max(urgency, 100)
                            ELSE IF d <= 3 THEN Max(urgency, 200)
                            ELSE urgency
             IN  Min(floored, 1000)

calculate_expected_fill(self, box_id) ==
    LET fill_score == calculate_fill_score_default(self, box_id)
        box_data == BoxData(self, box_id)
        avg_fill == IF box_data # <<>> /\ box_data[1].volume_moyen # NaN
                    THEN box_data[1].volume_moyen ELSE 0
    IN  IF avg_fill = StrValue THEN Raised
        ELSE Min(7 * fill_score + 180 * avg_fill, 10 * ExpectedUnit)

\* the three formulas of lines 302-307, in tenths
EquityUpTo7(d) == d * 5

Equity7To30(d) == 35 + (d - 7) * 2

EquityOver30(d) == Min(80 + (d - 30), 150)

calculate_equity_score(self, box_id) ==
    LET days_since == calculate_days_since_last_visit(self, box_id)
    IN  IF days_since = Raise THEN Raised
        ELSE IF days_since = None THEN 80
        ELSE LET d == days_since.v
             IN  IF d <= 0 THEN 0
                 ELSE IF d <= 7 THEN EquityUpTo7(d)
                 ELSE IF d <= 30 THEN Equity7To30(d)
                 ELSE EquityOver30(d)

\* mutant: the final min(profitability, 130.0) is dropped
ComputeProfitability_NoCap(self, box_id) ==
    LET expected_fill == calculate_expected_fill(self, box_id)
        urgency == calculate_urgency_score(self, box_id)
        equity == calculate_equity_score(self, box_id)
    IN  IF expected_fill = Raised \/ urgency = Raised \/ equity = Raised
        THEN Raised
        ELSE expected_fill * (2000 + urgency) + equity * 240000

\* lines 320-341: the computation behind the cache
ComputeProfitability(self, box_id) ==
    LET expected_fill == calculate_expected_fill(self, box_id)
        urgency == calculate_urgency_score(self, box_id)
        equity == calculate_equity_score(self, box_id)
    IN  IF expected_fill = Raised \/ urgency = Raised \/ equity = Raised
        THEN Raised
        ELSE Min(expected_fill * (2000 + urgency) + equity * 240000,
                 130 * ScoreUnit)

calculate_profitability_score(self, box_id) ==
    IF self.cache_valid /\ box_id \in DOMAIN self.score_cache
    THEN self.score_cache[box_id].profitability_score
    ELSE ComputeProfitability(self, box_id)

-----------------------------------------------------------------------------
(* Dictionaries: functions; one canonical empty dictionary *)

EmptyDict == <<>>

DictSet(d, key, val) == (key :> val) @@ d

\* mutant: the entry is left in place
DictDel_Keep(d, key) == d

DictDel(d, key) ==
    IF DOMAIN d \ {key} = {} THEN EmptyDict
    ELSE [x \in DOMAIN d \ {key} |-> d[x]]

\* dict.get(key, default)
DictGet(d, key, default) == IF key \in DOMAIN d THEN d[key] ELSE default

-----------------------------------------------------------------------------
(* The score cache *)

\* the dictionary stored per box by lines 94-108 and 122-137
ScoreSnapshot(self, box_id, current_week) ==
    [fill_score |-> calculate_fill_score(self, box_id, current_week),
     urgency_score |-> calculate_urgency_score(self, box_id),
     equity_score |-> calculate_equity_score(self, box_id),
     expected_fill |-> calculate_expected_fill(self, box_id),
     profitability_score |-> calculate_profitability_score(self, box_id),
     days_since_last_visit |-> calculate_days_since_last_visit(self, box_id)]

\* _precompute_all_scores, on an engine whose cache is not valid
precompute_all_scores(self) ==
    LET current_week == get_current_week(self)
        ids == CatalogIds(self)
        cache == IF ids = {} THEN self.score_cache
                 ELSE [b \in ids |-> ScoreSnapshot(self, b, current_week)]
                          @@ self.score_cache
    IN  [self EXCEPT !.score_cache = cache, !.cache_valid = TRUE]

\* mutant: only the validity flag is cleared, the snapshots stay
invalidate_cache_FlagOnly(self) == [self EXCEPT !.cache_valid = FALSE]

invalidate_cache(self) ==
    [self EXCEPT !.cache_valid = FALSE, !.score_cache = EmptyDict]

recalculate_box_scores(self, box_id) ==
    LET current_week == get_current_week_for_box(self, box_id)
    IN  [self EXCEPT !.score_cache =
             DictSet(self.score_cache, box_id,
                     ScoreSnapshot(self, box_id, current_week))]

-----------------------------------------------------------------------------
(* Conversions *)

\* datetime.isoformat() of an aware datetime, and datetime.fromisoformat()
IsoFormat(dt) == [k |-> "isostr", v |-> dt.v]

IsIsoString(s) == s.k = "isostr"

FromIsoFormat(s) == DateTime(s.v)

\* int(x) of a JSON value: an int, a string of digits; anything else raises
IntConvertible(x) == x.k \in {"int", "str"}

IntOf(x) == x.v

\* float(x) of a JSON value: a number; a non-numeric string raises
FloatConvertible(x) == x.k \in {"int", "float"}

FloatOf(x) == x.v

\* mutant: the membership test never finds the id
InValues_Never(x, ids) == FALSE

\* x in self.df['n_boite'].values: only a number compares equal to an id
InValues(x, ids) == x.k \in {"int", "float"} /\ x.v \in ids

-----------------------------------------------------------------------------
(* The visit ledger *)

\* the row written by _log_visit_to_csv; nothing when the box is unknown
LogRows(self, box_id, fill_level, expected_fill) ==
    LET box_data == BoxData(self, box_id)
    IN  IF box_data = <<>> THEN <<>>
        ELSE <<[timestamp |-> IsoFormat(DateTime(self.now)),
                box_id |-> box_id,
                address |-> box_data[1].adresse,
                expected_fill |-> expected_fill,
                observed_fill |-> fill_level,
                days_since_last_visit |->
                    calculate_days_since_last_visit(self, box_id),
                average_fill |-> box_data[1].volume_moyen]>>

\* mutant: the history of the box is replaced by the new record
mark_visit_Overwrite(self, box_id, fill_level) ==
    LET expected_fill == calculate_expected_fill(self, box_id)
        visit_record == [date |-> IsoFormat(DateTime(self.now)),
                         fill_level |-> fill_level,
                         expected_fill |-> expected_fill]
        s1 == [self EXCEPT
                  !.last_visit = DictSet(self.last_visit, box_id,
                                         DateTime(self.now)),
                  !.visit_history = DictSet(self.visit_history, box_id,
                                            <<visit_record>>)]
    IN  IF expected_fill = Raised THEN self
        ELSE recalculate_box_scores(invalidate_cache(s1), box_id)

\* mark_visit, up to the cache update (lines 448-471)
mark_visit(self, box_id, fill_level) ==
    LET expected_fill == calculate_expected_fill(self, box_id)
        visit_record == [date |-> IsoFormat(DateTime(self.now)),
                         fill_level |-> fill_level,
                         expected_fill |-> expected_fill]
        history == DictGet(self.visit_history, box_id, <<>>)
        s1 == [self EXCEPT
                  !.last_visit = DictSet(self.last_visit, box_id,
                                         DateTime(self.now)),
                  !.visit_history = DictSet(self.visit_history, box_id,
                                            Append(history, visit_record))]
    IN  IF expected_fill = Raised THEN self
        ELSE recalculate_box_scores(invalidate_cache(s1), box_id)

-----------------------------------------------------------------------------
(* Persistence: the state file is a pair of key/value lists, or is missing *)

NoFile == [kind |-> "missing", last_visit |-> <<>>, visit_history |-> <<>>]

\* the keys of a dictionary, ascending
RECURSIVE SortedKeys(_)
SortedKeys(keys) ==
    IF keys = {} THEN <<>>
    ELSE LET m == CHOOSE x \in keys : \A y \in keys : x <= y
         IN  <<m>> \o SortedKeys(keys \ {m})

\* the dictionary comprehension of line 557 raises on a None timestamp
SaveRaises(self) ==
    \E b \in DOMAIN self.last_visit : self.last_visit[b] = None

SavedState(self) ==
    LET lk == SortedKeys(DOMAIN self.last_visit)
        hk == SortedKeys(DOMAIN self.visit_history)
    IN  [kind |-> "json",
         last_visit |-> [i \in 1..Len(lk) |->
                            <<PyStr(lk[i]), IsoFormat(self.last_visit[lk[i]])>>],
         visit_history |-> [i \in 1..Len(hk) |->
                            <<PyStr(hk[i]), self.visit_history[hk[i]]>>]]

\* the first n entries of a key/value list, as a dictionary (later wins)
RECURSIVE LoadedVisits(_, _)
LoadedVisits(pairs, n) ==
    IF n = 0 THEN EmptyDict
    ELSE DictSet(LoadedVisits(pairs, n - 1),
                 IntOf(pairs[n][1]), FromIsoFormat(pairs[n][2]))

RECURSIVE LoadedHistory(_, _)
LoadedHistory(pairs, n) ==
    IF n = 0 THEN EmptyDict
    ELSE DictSet(LoadedHistory(pairs, n - 1), IntOf(pairs[n][1]), pairs[n][2])

\* the entries of the last_visit list that lines 578-581 cannot convert
BadVisits(file) ==
    {i \in 1..Len(file.last_visit) :
        ~IsIsoString(file.last_visit[i][2])
        \/ ~IntConvertible(file.last_visit[i][1])}

BadHistory(file) ==
    {i \in 1..Len(file.visit_history) :
        ~IntConvertible(file.visit_history[i][1])}

load_state(self, file) ==
    IF file.kind # "json" THEN self
    ELSE IF BadVisits(file) # {}
    THEN LET first == CHOOSE i \in BadVisits(file) :
                          \A j \in BadVisits(file) : i <= j
         IN  [self EXCEPT !.last_visit =
                              LoadedVisits(file.last_visit, first - 1)]
    ELSE IF BadHistory(file) # {}
    THEN [self EXCEPT !.last_visit =
                          LoadedVisits(file.last_visit, Len(file.last_visit))]
    ELSE [self EXCEPT
             !.last_visit =
                 LoadedVisits(file.last_visit, Len(file.last_visit)),
             !.visit_history =
                 LoadedHistory(file.visit_history, Len(file.visit_history))]

-----------------------------------------------------------------------------
(* Catalog mutations.  Each returns the engine and the returned value. *)

required_fields ==
    {"n_boite", "adresse", "commune", "cp", "conteneur", "volume_moyen"}

allowed_fields == {"adresse", "commune", "cp", "conteneur", "volume_moyen"}

Result(self, status) == [self |-> self, status |-> status]

add_box(self, box_data) ==
    IF ~(required_fields \subseteq DOMAIN box_data)
    THEN Result(self, "False")
    ELSE IF InValues(box_data["n_boite"], CatalogIds(self))
    THEN Result(self, "False")
    ELSE IF ~IntConvertible(box_data["n_boite"])
            \/ ~FloatConvertible(box_data["volume_moyen"])
    THEN Result(self, "False")
    ELSE LET box_id == IntOf(box_data["n_boite"])
             new_row == [n_boite |-> box_id,
                         adresse |-> box_data["adresse"],
                         commune |-> box_data["commune"],
                         cp |-> box_data["cp"],
                         conteneur |-> box_data["conteneur"],
                         volume_moyen |-> FloatOf(box_data["volume_moyen"]),
                         weeks |-> [i \in 1..self.week_columns |-> NaN]]
             s1 == [self EXCEPT
                       !.df = Append(self.df, new_row),
                       !.last_visit =
                           IF box_id \notin DOMAIN self.last_visit
                           THEN DictSet(self.last_visit, box_id, None)
                           ELSE self.last_visit,
                       !.visit_history =
                           IF box_id \notin DOMAIN self.visit_history
                           THEN DictSet(self.visit_history, box_id, <<>>)
                           ELSE self.visit_history]
         IN  Result(invalidate_cache(s1), "True")

remove_box(self, box_id) ==
    IF box_id \notin CatalogIds(self) THEN Result(self, "False")
    ELSE Result([self EXCEPT
                    !.df = SelectSeq(self.df, LAMBDA r : r.n_boite # box_id),
                    !.last_visit = DictDel(self.last_visit, box_id),
                    !.visit_history = DictDel(self.visit_history, box_id),
                    !.score_cache = DictDel(self.score_cache, box_id)],
                "True")

\* a value the float column volume_moyen holds without changing dtype
IsNumber(x) == x.k \in {"int", "float"}

\* the assignment of line 708 raises: the value is not a number and the
\* build's pandas refuses a value of another dtype (strict) instead of
\* turning the column into dtype object
SetItemRaises(box_data, strict) ==
    /\ strict
    /\ "volume_moyen" \in DOMAIN box_data
    /\ ~IsNumber(box_data["volume_moyen"])

\* self.df.loc[self.df['n_boite'] == box_id, field] = box_data[field], for
\* the allowed fields in order; volume_moyen is the last of them
UpdatedRow(row, box_data, strict) ==
    [f \in DOMAIN row |->
        IF f \in allowed_fields /\ f \in DOMAIN box_data
        THEN (IF f # "volume_moyen" THEN box_data[f]
              ELSE IF IsNumber(box_data[f]) THEN FloatOf(box_data[f])
              ELSE IF strict THEN row[f]
              ELSE StrValue)
        ELSE row[f]]

\* mutant: no existence check, the cache is dropped for an unknown id too
update_box_NoCheck(self, box_id, box_data, strict) ==
    LET s1 == [self EXCEPT !.df =
                  [i \in 1..Len(self.df) |->
                      IF self.df[i].n_boite = box_id
                      THEN UpdatedRow(self.df[i], box_data, strict)
                      ELSE self.df[i]]]
    IN  Result(invalidate_cache(s1),
               IF box_id \in CatalogIds(self) THEN "True" ELSE "False")

update_box(self, box_id, box_data, strict) ==
    IF box_id \notin CatalogIds(self) THEN Result(self, "False")
    ELSE LET s1 == [self EXCEPT !.df =
                       [i \in 1..Len(self.df) |->
                           IF self.df[i].n_boite = box_id
                           THEN UpdatedRow(self.df[i], box_data, strict)
                           ELSE self.df[i]]]
         IN  IF SetItemRaises(box_data, strict) THEN Result(s1, "False")
             ELSE Result(invalidate_cache(s1), "True")

-----------------------------------------------------------------------------
(* Reads *)

\* the reads of lines 396-398 and 403 raise on a None timestamp, and on a
\* volume_moyen that is not a number
ReadRaises(self, box_id) ==
    \/ calculate_profitability_score(self, box_id) = Raised
    \/ calculate_expected_fill(self, box_id) = Raised
    \/ calculate_days_since_last_visit(self, box_id) = Raise

\* mutant: the threshold is applied to the rounded score
Qualifies_Rounded(self, box_id, min_score) ==
    Round1(calculate_profitability_score(self, box_id), ScoreUnit) * 10
        >= min_score

Qualifies(self, box_id, min_score) ==
    calculate_profitability_score(self, box_id)
        >= min_score * (ScoreUnit \div 100)

RecommendationEntry(self, box) ==
    [box_id |-> box.n_boite,
     address |-> box.adresse,
     commune |-> box.commune,
     postal_code |-> box.cp,
     container_type |-> box.conteneur,
     profitability_score |->
         Round1(calculate_profitability_score(self, box.n_boite), ScoreUnit),
     expected_fill |->
         Round1(calculate_expected_fill(self, box.n_boite), ExpectedUnit),
     equity_score |-> calculate_equity_score(self, box.n_boite),
     days_since_last_visit |->
         calculate_days_since_last_visit(self, box.n_boite),
     average_fill |-> IF box.volume_moyen # NaN THEN box.volume_moyen ELSE 0]

\* mutant: the list is left in catalog order
SortByScore_Unsorted(recs) == recs

\* list.sort(key=profitability_score, reverse=True): stable, descending
RECURSIVE SortByScore(_)
SortByScore(recs) ==
    IF recs = <<>> THEN <<>>
    ELSE LET sorted == SortByScore(SubSeq(recs, 1, Len(recs) - 1))
             e == recs[Len(recs)]
             n == Cardinality({i \in 1..Len(sorted) :
                      sorted[i].profitability_score >= e.profitability_score})
         IN  SubSeq(sorted, 1, n) \o <<e>> \o SubSeq(sorted, n + 1, Len(sorted))

\* recommendations[:max_boxes], a negative bound counts from the end
SliceTo(list, max_boxes) ==
    IF max_boxes >= 0 THEN SubSeq(list, 1, Min(max_boxes, Len(list)))
    ELSE SubSeq(list, 1, Max(0, Len(list) + max_boxes))

get_recommended_boxes(self, max_boxes, min_score) ==
    IF \E i \in 1..Len(self.df) : ReadRaises(self, self.df[i].n_boite)
    THEN [status |-> "raise", value |-> <<>>]
    ELSE LET kept == SelectSeq(self.df,
                         LAMBDA box : Qualifies(self, box.n_boite, min_score))
             recommendations ==
                 [i \in 1..Len(kept) |-> RecommendationEntry(self, kept[i])]
         IN  [status |-> "ok",
              value |-> SliceTo(SortByScore(recommendations), max_boxes)]

get_box_details(self, box_id) ==
    LET box_data == BoxData(self, box_id)
    IN  IF box_data = <<>> THEN [status |-> "None", value |-> <<>>]
        ELSE IF ReadRaises(self, box_id)
        THEN [status |-> "raise", value |-> <<>>]
        ELSE LET box == box_data[1]
                 n == self.week_columns
                 weeks == SelectSeq([i \in 1..Min(8, n) |-> n + 1 - i],
                                    LAMBDA w : box.weeks[w] # NaN)
             IN  [status |-> "ok",
                  value |-> <<[box_id |-> box_id,
                      address |-> box.adresse,
                      average_fill |-> IF box.volume_moyen # NaN
                                       THEN box.volume_moyen ELSE 0,
                      current_score |->
                          Round1(calculate_profitability_score(self, box_id),
                                 ScoreUnit),
                      expected_fill |->
                          Round1(calculate_expected_fill(self, box_id),
                                 ExpectedUnit),
                      days_since_last_visit |->
                          calculate_days_since_last_visit(self, box_id),
                      recent_history |->
                          [i \in 1..Len(weeks) |->
                              [week |-> weeks[i],
                               fill_level |-> box.weeks[weeks[i]]]],
                      visit_history |->
                          DictGet(self.visit_history, box_id, <<>>)]>>]

-----------------------------------------------------------------------------
(* The engine as one value, and the inputs of the operations *)

Self == [df |-> df, week_columns |-> week_columns, last_visit |-> last_visit,
         visit_history |-> visit_history, score_cache |-> score_cache,
         cache_valid |-> cache_valid, now |-> now]

Becomes(s) ==
    /\ df' = s.df
    /\ week_columns' = s.week_columns
    /\ last_visit' = s.last_visit
    /\ visit_history' = s.visit_history
    /\ score_cache' = s.score_cache
    /\ cache_valid' = s.cache_valid

Row(id, vol, weeks) ==
    [n_boite |-> id, adresse |-> "Rue A", commune |-> "Geneve",
     cp |-> "1200", conteneur |-> "Textile", volume_moyen |-> vol,
     weeks |-> weeks]

\* catalogs of two boxes and five weeks of observations
InitialCatalogs ==
    {<<Row(1, 50, <<20, 40, 60, 80, NaN>>),
       Row(2, 6, <<NaN, NaN, NaN, NaN, 30>>)>>}

BoxInput(id, vol) ==
    [n_boite |-> id, adresse |-> "Rue C", commune |-> "Carouge",
     cp |-> "1227", conteneur |-> "Textile", volume_moyen |-> vol]

AddInputs ==
    {BoxInput(PyInt(i), PyFloat(50)) : i \in BoxIds}
    \cup {BoxInput(PyStr(i), PyFloat(50)) : i \in BoxIds}
    \cup {BoxInput(PyInt(i), BadStr) : i \in BoxIds}
    \cup {[n_boite |-> PyInt(MaxId), adresse |-> "Rue C"]}

UpdateInputs == {[adresse |-> "Rue B", volume_moyen |-> PyFloat(0)]}

\* update data with a volume_moyen that is not a number
MalformedUpdates == {[adresse |-> "Rue B", volume_moyen |-> BadStr]}

FillLevels == {PyFloat(75)}

\* (max_boxes, min_score) of get_recommended_boxes; 3000 is the default
RecommendArgs ==
    {<<-1, 3000>>, <<0, 3000>>, <<1, 3000>>, <<MaxRows, 3933>>}

NoValue == <<>>

\* the threads of the server, each handling one request at a time
Threads == {1, 2}

\* a thread with no request: its position in mark_visit and its locals
Idle == [pc |-> "idle", box_id |-> 0, fill_level |-> None,
         expected_fill |-> 0, stamp |-> None, saved |-> "none"]

NoRequests == [t \in Threads |-> Idle]

Called(op, box_id, arg) == [op |-> op, box_id |-> box_id, arg |-> arg]

\* the value the engine returned, and how the save_state of the route ended
Returned(status, value, saved) ==
    [status |-> status, value |-> value, saved |-> saved]

\* the state file after save_state: unchanged when save_state raises
FileAfterSave(self, file) ==
    IF SaveRaises(self) THEN file ELSE SavedState(self)

SaveOutcome(self) == IF SaveRaises(self) THEN "raise" ELSE "ok"

\* __init__: read the catalog, start from an empty ledger, fill the cache
Construct(catalog, clock) ==
    precompute_all_scores(
        [df |-> catalog, week_columns |-> Len(catalog[1].weeks),
         last_visit |-> EmptyDict, visit_history |-> EmptyDict,
         score_cache |-> EmptyDict, cache_valid |-> FALSE, now |-> clock])

-----------------------------------------------------------------------------
(* The state machine: the process start and the routes of src/app.py *)

\* init_optimizer: the constructor, then load_state
init_optimizer(catalog, clock, file) ==
    load_state(Construct(catalog, clock), file)

Init ==
    /\ csv_file \in InitialCatalogs
    /\ now = 0
    /\ state_file = NoFile
    /\ LET s == init_optimizer(csv_file, 0, NoFile)
       IN  /\ df = s.df
           /\ week_columns = s.week_columns
           /\ last_visit = s.last_visit
           /\ visit_history = s.visit_history
           /\ score_cache = s.score_cache
           /\ cache_valid = s.cache_valid
    /\ log_appended = <<>>
    /\ call = Called("init_optimizer", 0, NoValue)
    /\ ret = Returned("ok", NoValue, "none")
    /\ threads = NoRequests

\* a day passes
Tick ==
    /\ now < MaxClock
    /\ now' = now + 1
    /\ call' = Called("tick", 0, NoValue)
    /\ log_appended' = <<>>
    /\ ret' = Returned("ok", NoValue, "none")
    /\ UNCHANGED <<threads, csv_file, df, week_columns, last_visit,
                   visit_history,
                   score_cache, cache_valid, state_file>>

\* the process is started again: the first request runs init_optimizer
Restart ==
    /\ Becomes(init_optimizer(csv_file, now, state_file))
    /\ call' = Called("init_optimizer", 0, NoValue)
    /\ log_appended' = <<>>
    /\ ret' = Returned("ok", NoValue, "none")
    /\ UNCHANGED <<threads, csv_file, now, state_file>>

\* POST /api/visit: mark_visit, then save_state
VisitRoute(box_id, fill_level) ==
    /\ LET s == mark_visit(Self, box_id, fill_level)
       IN  /\ Becomes(s)
           /\ IF calculate_expected_fill(Self, box_id) = Raised
              THEN /\ log_appended' = <<>>
                   /\ UNCHANGED state_file
                   /\ ret' = Returned("raise", NoValue, "none")
              ELSE /\ log_appended' =
                          LogRows(s, box_id, fill_level,
                                  calculate_expected_fill(Self, box_id))
                   /\ state_file' = FileAfterSave(s, state_file)
                   /\ ret' = Returned("ok", NoValue, SaveOutcome(s))
    /\ call' = Called("mark_visit", box_id, fill_level)
    /\ UNCHANGED <<threads, csv_file, now>>

\* a visit request, while the box has fewer than MaxVisits visits on record
MarkVisit(box_id, fill_level) ==
    /\ Len(DictGet(visit_history, box_id, <<>>)) < MaxVisits
    /\ VisitRoute(box_id, fill_level)

\* POST /api/add-box: add_box, then save_state when it succeeded
AddBox(box_data) ==
    /\ Len(df) < MaxRows \/ add_box(Self, box_data).status = "False"
    /\ LET r == add_box(Self, box_data)
       IN  /\ Becomes(r.self)
           /\ IF r.status = "True"
              THEN /\ state_file' = FileAfterSave(r.self, state_file)
                   /\ ret' = Returned("True", NoValue, SaveOutcome(r.self))
              ELSE /\ UNCHANGED state_file
                   /\ ret' = Returned("False", NoValue, "none")
    /\ call' = Called("add_box", 0, box_data)
    /\ log_appended' = <<>>
    /\ UNCHANGED <<threads, csv_file, now>>

\* DELETE /api/remove-box/<id>: remove_box, then save_state when it succeeded
RemoveBox(box_id) ==
    /\ LET r == remove_box(Self, box_id)
       IN  /\ Becomes(r.self)
           /\ IF r.status = "True"
              THEN /\ state_file' = FileAfterSave(r.self, state_file)
                   /\ ret' = Returned("True", NoValue, SaveOutcome(r.self))
              ELSE /\ UNCHANGED state_file
                   /\ ret' = Returned("False", NoValue, "none")
    /\ call' = Called("remove_box", box_id, NoValue)
    /\ log_appended' = <<>>
    /\ UNCHANGED <<threads, csv_file, now>>

\* PUT /api/update-box/<id>: update_box, then save_state when it succeeded
UpdateBox(box_id, box_data) ==
    /\ \E strict \in BOOLEAN :
       LET r == update_box(Self, box_id, box_data, strict)
       IN  /\ Becomes(r.self)
           /\ IF r.status = "True"
              THEN /\ state_file' = FileAfterSave(r.self, state_file)
                   /\ ret' = Returned("True", NoValue, SaveOutcome(r.self))
              ELSE /\ UNCHANGED state_file
                   /\ ret' = Returned("False", NoValue, "none")
    /\ call' = Called("update_box", box_id, box_data)
    /\ log_appended' = <<>>
    /\ UNCHANGED <<threads, csv_file, now>>

\* POST /api/reset-visits
ResetVisits ==
    /\ LET s == invalidate_cache([Self EXCEPT !.last_visit = EmptyDict,
                                              !.visit_history = EmptyDict])
       IN  /\ Becomes(s)
           /\ state_file' = FileAfterSave(s, state_file)
           /\ ret' = Returned("ok", NoValue, SaveOutcome(s))
    /\ call' = Called("reset_visits", 0, NoValue)
    /\ log_appended' = <<>>
    /\ UNCHANGED <<threads, csv_file, now>>

\* GET /api/recommendations
GetRecommendedBoxes(max_boxes, min_score) ==
    /\ LET r == get_recommended_boxes(Self, max_boxes, min_score)
       IN  ret' = Returned(r.status, r.value, "none")
    /\ call' = Called("get_recommended_boxes", 0, <<max_boxes, min_score>>)
    /\ log_appended' = <<>>
    /\ UNCHANGED <<threads, csv_file, df, week_columns, last_visit,
                   visit_history,
                   score_cache, cache_valid, now, state_file>>

\* GET /api/box/<id>
GetBoxDetails(box_id) ==
    /\ LET r == get_box_details(Self, box_id)
       IN  ret' = Returned(r.status, r.value, "none")
    /\ call' = Called("get_box_details", box_id, NoValue)
    /\ log_appended' = <<>>
    /\ UNCHANGED <<threads, csv_file, df, week_columns, last_visit,
                   visit_history,
                   score_cache, cache_valid, now, state_file>>

Next ==
    \/ Tick
    \/ Restart
    \/ \E b \in BoxIds, f \in FillLevels : MarkVisit(b, f)
    \/ \E d \in AddInputs : AddBox(d)
    \/ \E b \in BoxIds : RemoveBox(b)
    \/ \E b \in BoxIds, d \in UpdateInputs : UpdateBox(b, d)
    \/ ResetVisits
    \/ \E a \in RecommendArgs : GetRecommendedBoxes(a[1], a[2])
    \/ \E b \in BoxIds : GetBoxDetails(b)

Spec == Init /\ [][Next]_vars

-----------------------------------------------------------------------------
(* The scores over time: a catalog of two boxes with chosen attributes, some *)
(* of them visited on day 0, and then days passing without a visit.         *)

\* beyond 100 days every score is constant: the equity score is capped there
MaxDays == 100

\* rows with valid attributes: observations and volume_moyen in [0, 10] or NaN
ScoreRows(id) ==
    {Row(id, 0, <<0, 0, 0, 0, 0>>),
     Row(id, NaN, <<NaN, NaN, NaN, NaN, NaN>>),
     Row(id, 100, <<100, 100, 100, 100, 100>>),
     Row(id, 50, <<20, 40, 60, 80, NaN>>),
     Row(id, 0, <<85, 85, 85, 85, 85>>)}

ScoreCatalogs == {<<r1, r2>> : r1 \in ScoreRows(1), r2 \in ScoreRows(2)}

ScoreArgs == {<<MaxRows, 3000>>, <<1, 3000>>}

\* how many days the clock may read before the last visit
MaxSkew == 10

\* mark_visit of each box of ids in turn, ascending
RECURSIVE VisitAll(_, _)
VisitAll(self, ids) ==
    IF ids = {} THEN self
    ELSE LET b == CHOOSE x \in ids : \A y \in ids : x <= y
         IN  VisitAll(mark_visit(self, b, PyFloat(75)), ids \ {b})

ScoreInit ==
    /\ csv_file \in ScoreCatalogs
    /\ now = 0
    /\ \E visited \in SUBSET BoxIds :
           LET s == VisitAll(init_optimizer(csv_file, 0, NoFile), visited)
           IN  /\ df = s.df
               /\ week_columns = s.week_columns
               /\ last_visit = s.last_visit
               /\ visit_history = s.visit_history
               /\ score_cache = s.score_cache
               /\ cache_valid = s.cache_valid
               /\ state_file = FileAfterSave(s, NoFile)
    /\ log_appended = <<>>
    /\ call = Called("start", 0, NoValue)
    /\ ret = Returned("ok", NoValue, "none")
    /\ threads = NoRequests

\* a day passes without a visit
DayPasses ==
    /\ now < MaxDays
    /\ now' = now + 1
    /\ call' = Called("tick", 0, NoValue)
    /\ log_appended' = <<>>
    /\ ret' = Returned("ok", NoValue, "none")
    /\ UNCHANGED <<threads, csv_file, df, week_columns, last_visit,
                   visit_history,
                   score_cache, cache_valid, state_file>>

ScoreNext ==
    \/ DayPasses
    \/ \E a \in ScoreArgs : GetRecommendedBoxes(a[1], a[2])

ScoreSpec == ScoreInit /\ [][ScoreNext]_vars

\* the clock does not stop
FairScoreSpec == ScoreSpec /\ WF_vars(DayPasses)

-----------------------------------------------------------------------------
(* The catalog edited with well-formed and malformed data *)

EditNext ==
    \/ \E b \in BoxIds, d \in UpdateInputs \cup MalformedUpdates :
           UpdateBox(b, d)
    \/ \E d \in AddInputs : AddBox(d)
    \/ \E b \in BoxIds : RemoveBox(b)
    \/ \E b \in BoxIds, f \in FillLevels : MarkVisit(b, f)
    \/ \E a \in RecommendArgs : GetRecommendedBoxes(a[1], a[2])
    \/ \E b \in BoxIds : GetBoxDetails(b)

EditSpec == Init /\ [][EditNext]_vars

-----------------------------------------------------------------------------
(* The state file damaged between two runs of the process *)

\* optimizer_state.json is deleted, or no longer parses as JSON
Unreadable == {NoFile, [kind |-> "garbage", last_visit |-> <<>>,
                        visit_history |-> <<>>]}

\* the timestamp of entry i of "last_visit" is not an ISO date any more
BadTimestamp(file, i) ==
    [file EXCEPT !.last_visit[i] = <<file.last_visit[i][1], BadStr>>]

\* the key of entry i of "visit_history" is not an integer any more
BadKey(file, i) ==
    [file EXCEPT !.visit_history[i] = <<BadStr, file.visit_history[i][2]>>]

DamageFile ==
    /\ state_file.kind = "json"
    /\ \/ state_file' \in Unreadable
       \/ \E i \in 1..Len(state_file.last_visit) :
              state_file' = BadTimestamp(state_file, i)
       \/ \E i \in 1..Len(state_file.visit_history) :
              state_file' = BadKey(state_file, i)
    /\ call' = Called("damage", 0, NoValue)
    /\ log_appended' = <<>>
    /\ ret' = Returned("ok", NoValue, "none")
    /\ UNCHANGED <<threads, csv_file, df, week_columns, last_visit,
                   visit_history,
                   score_cache, cache_valid, now>>

LoadNext ==
    \/ DamageFile
    \/ Restart
    \/ \E b \in BoxIds, f \in FillLevels : MarkVisit(b, f)
    \/ \E b \in BoxIds : GetBoxDetails(b)

LoadSpec == Init /\ [][LoadNext]_vars

-----------------------------------------------------------------------------
(* The ledger under repeated visits: each box is visited up to MaxHistory  *)
(* times, between additions, removals, resets and restarts.                *)

MaxHistory == 2

Revisit(box_id, fill_level) ==
    /\ Len(DictGet(visit_history, box_id, <<>>)) < MaxHistory
    /\ VisitRoute(box_id, fill_level)

HistoryNext ==
    \/ Tick
    \/ Restart
    \/ \E b \in BoxIds, f \in FillLevels : Revisit(b, f)
    \/ \E d \in AddInputs : AddBox(d)
    \/ \E b \in BoxIds : RemoveBox(b)
    \/ ResetVisits

HistorySpec == Init /\ [][HistoryNext]_vars

-----------------------------------------------------------------------------
(* Two visit requests handled at the same time. The server runs each       *)
(* request in a thread of its own (app.run serves threaded) and neither    *)
(* the route nor mark_visit takes a lock, so the threads interleave        *)
(* between the statements of mark_visit; a statement that evaluates a      *)
(* value and then stores it into a dictionary is two steps.                *)

\* POST /api/visit received by thread t
Receive(t, box_id, fill_level) ==
    /\ threads[t].pc = "idle"
    /\ threads' = [threads EXCEPT ![t] =
           [Idle EXCEPT !.pc = "448", !.box_id = box_id,
                        !.fill_level = fill_level]]
    /\ UNCHANGED <<csv_file, df, week_columns, last_visit, visit_history,
                   score_cache, cache_valid, now, state_file, log_appended,
                   call, ret>>

\* line 448: expected_fill = self.calculate_expected_fill(box_id)
ExpectedFill(t) ==
    /\ threads[t].pc = "448"
    /\ LET expected_fill == calculate_expected_fill(Self, threads[t].box_id)
       IN  IF expected_fill = Raised
           THEN /\ threads' = [threads EXCEPT ![t].pc = "done"]
                /\ call' = Called("mark_visit", threads[t].box_id,
                                  threads[t].fill_level)
                /\ ret' = Returned("raise", NoValue, "none")
           ELSE /\ threads' = [threads EXCEPT
                                  ![t].pc = "450",
                                  ![t].expected_fill = expected_fill]
                /\ UNCHANGED <<call, ret>>
    /\ UNCHANGED <<csv_file, df, week_columns, last_visit, visit_history,
                   score_cache, cache_valid, now, state_file, log_appended>>

\* line 450, right-hand side: datetime.now(self.timezone)
ReadClock(t) ==
    /\ threads[t].pc = "450"
    /\ threads' = [threads EXCEPT ![t].pc = "450 store",
                                  ![t].stamp = DateTime(now)]
    /\ UNCHANGED <<csv_file, df, week_columns, last_visit, visit_history,
                   score_cache, cache_valid, now, state_file, log_appended,
                   call, ret>>

\* line 450, the store: self.last_visit[box_id] = ...
StoreLastVisit(t) ==
    /\ threads[t].pc = "450 store"
    /\ last_visit' = DictSet(last_visit, threads[t].box_id, threads[t].stamp)
    /\ threads' = [threads EXCEPT ![t].pc = "452"]
    /\ UNCHANGED <<csv_file, df, week_columns, visit_history, score_cache,
                   cache_valid, now, state_file, log_appended, call, ret>>

\* line 452: if box_id not in self.visit_history
CheckHistory(t) ==
    /\ threads[t].pc = "452"
    /\ threads' = [threads EXCEPT ![t].pc =
           IF threads[t].box_id \notin DOMAIN visit_history
           THEN "453" ELSE "455"]
    /\ UNCHANGED <<csv_file, df, week_columns, last_visit, visit_history,
                   score_cache, cache_valid, now, state_file, log_appended,
                   call, ret>>

\* line 453: self.visit_history[box_id] = []
CreateHistory(t) ==
    /\ threads[t].pc = "453"
    /\ visit_history' = DictSet(visit_history, threads[t].box_id, <<>>)
    /\ threads' = [threads EXCEPT ![t].pc = "455"]
    /\ UNCHANGED <<csv_file, df, week_columns, last_visit, score_cache,
                   cache_valid, now, state_file, log_appended, call, ret>>

\* lines 455-461: the record, dated now, is appended to the list of the box
AppendRecord(t) ==
    /\ threads[t].pc = "455"
    /\ LET box_id == threads[t].box_id
           visit_record == [date |-> IsoFormat(DateTime(now)),
                            fill_level |-> threads[t].fill_level,
                            expected_fill |-> threads[t].expected_fill]
       IN  visit_history' =
               DictSet(visit_history, box_id,
                       Append(DictGet(visit_history, box_id, <<>>),
                              visit_record))
    /\ threads' = [threads EXCEPT ![t].pc = "468"]
    /\ UNCHANGED <<csv_file, df, week_columns, last_visit, score_cache,
                   cache_valid, now, state_file, log_appended, call, ret>>

\* lines 468-474 and the save_state of the route
FinishVisit(t) ==
    /\ threads[t].pc = "468"
    /\ LET box_id == threads[t].box_id
           s == recalculate_box_scores(invalidate_cache(Self), box_id)
       IN  /\ Becomes(s)
           /\ log_appended' = LogRows(s, box_id, threads[t].fill_level,
                                      threads[t].expected_fill)
           /\ state_file' = FileAfterSave(s, state_file)
           /\ ret' = Returned("ok", NoValue, SaveOutcome(s))
           /\ threads' = [threads EXCEPT ![t].pc = "done",
                                         ![t].saved = SaveOutcome(s)]
    /\ call' = Called("mark_visit", threads[t].box_id, threads[t].fill_level)
    /\ UNCHANGED <<csv_file, now>>

ConcurrentNext ==
    \/ Tick
    \/ \E t \in Threads, b \in BoxIds, f \in FillLevels : Receive(t, b, f)
    \/ \E t \in Threads : ExpectedFill(t)
    \/ \E t \in Threads : ReadClock(t)
    \/ \E t \in Threads : StoreLastVisit(t)
    \/ \E t \in Threads : CheckHistory(t)
    \/ \E t \in Threads : CreateHistory(t)
    \/ \E t \in Threads : AppendRecord(t)
    \/ \E t \in Threads : FinishVisit(t)

ConcurrentSpec == Init /\ [][ConcurrentNext]_vars

-----------------------------------------------------------------------------
(* Properties *)

Mutations ==
    {"mark_visit", "add_box", "update_box", "remove_box", "init_optimizer",
     "reset_visits"}

EngineUnchanged ==
    /\ df' = df
    /\ last_visit' = last_visit
    /\ visit_history' = visit_history
    /\ score_cache' = score_cache
    /\ cache_valid' = cache_valid

\* the last operation was get_recommended_boxes and it returned a list
Recommended == call.op = "get_recommended_boxes" /\ ret.status = "ok"

\* a min_score in hundredths, in the unit of the profitability score
InScoreUnit(min_score) == min_score * (ScoreUnit \div 100)

\* C1: after every mutation (mark_visit, add_box, update_box, remove_box,
\* load_state at start, reset), calculate_profitability_score of each catalog
\* box returns what a fresh computation from the catalog and ledger gives.
C1_CacheCoherence ==
    [][call'.op \in Mutations =>
          \A b \in CatalogIds(Self') :
              calculate_profitability_score(Self', b)
                  = ComputeProfitability(Self', b)]_vars

\* C2: mark_visit on an id absent from the catalog reports not-found and
\* leaves the ledger and the score cache as they were.
C2_MarkVisitAbsentNoEffect ==
    [][(call'.op = "mark_visit" /\ call'.box_id \notin CatalogIds(Self)) =>
          /\ ret'.status # "ok"
          /\ last_visit' = last_visit
          /\ visit_history' = visit_history
          /\ score_cache' = score_cache
          /\ cache_valid' = cache_valid]_vars

\* C3: after a successful add_box of a fresh id the box reads as never
\* visited (sentinel, equity 8.0) and the reads and save_state do not raise.
C3_AddedBoxNeverVisited ==
    [][(/\ call'.op = "add_box"
        /\ ret'.status = "True"
        /\ IntOf(call'.arg["n_boite"]) \notin CatalogIds(Self)) =>
          LET b == IntOf(call'.arg["n_boite"])
          IN  /\ calculate_days_since_last_visit(Self', b) = None
              /\ calculate_equity_score(Self', b) = 80
              /\ ~SaveRaises(Self')
              /\ get_box_details(Self', b).status = "ok"
              /\ \A a \in RecommendArgs :
                     get_recommended_boxes(Self', a[1], a[2]).status = "ok"]_vars

\* C4: add_box with an id that is in the catalog returns False and leaves
\* the catalog, the ledger and the score cache unchanged.
C4_DuplicateAddRejected ==
    [][(/\ call'.op = "add_box"
        /\ call'.arg["n_boite"].k = "int"
        /\ \E i \in 1..Len(df) : df[i].n_boite = call'.arg["n_boite"].v) =>
          /\ ret'.status = "False"
          /\ Len(df') = Len(df)
          /\ EngineUnchanged]_vars

C4_Witness ==
    /\ call.op = "add_box"
    /\ ret.status = "False"
    /\ required_fields \subseteq DOMAIN call.arg
    /\ call.arg["volume_moyen"].k = "float"
    /\ call.arg["n_boite"].k = "int"
    /\ \E i \in 1..Len(df) : df[i].n_boite = call.arg["n_boite"].v

\* C5: after a successful remove_box(b), b has no last-visit entry, no
\* history entry and no cached snapshot, and get_box_details(b) is None,
\* whether the cache was valid or not.
C5_RemovePurges ==
    [][(call'.op = "remove_box" /\ ret'.status = "True") =>
          LET b == call'.box_id
          IN  /\ b \notin DOMAIN last_visit'
              /\ b \notin DOMAIN visit_history'
              /\ b \notin DOMAIN score_cache'
              /\ get_box_details(Self', b).status = "None"]_vars

C5_Witness ==
    /\ call.op = "remove_box"
    /\ ret.status = "True"
    /\ cache_valid
    /\ last_visit # EmptyDict
    /\ call.box_id \notin DOMAIN last_visit

\* C6: update_box and remove_box on an id absent from the catalog return
\* False, get_box_details returns None, and nothing changes.
C6_AbsentIdNoEffect ==
    [][(/\ call'.op \in {"update_box", "remove_box", "get_box_details"}
        /\ \A i \in 1..Len(df) : df[i].n_boite # call'.box_id) =>
          /\ ret'.status =
                 IF call'.op = "get_box_details" THEN "None" ELSE "False"
          /\ EngineUnchanged]_vars

C6_Witness ==
    /\ call.op = "update_box"
    /\ ret.status = "False"
    /\ \A i \in 1..Len(df) : df[i].n_boite # call.box_id
    /\ cache_valid
    /\ score_cache # EmptyDict

\* C7: right after mark_visit(b) on a catalog box, days since the last visit
\* of b is 0, and the profitability score, expected fill and days of every
\* other catalog box read as they did just before the visit.
C7_VisitFrame ==
    [][(call'.op = "mark_visit" /\ call'.box_id \in CatalogIds(Self)) =>
          LET b == call'.box_id
          IN  /\ calculate_days_since_last_visit(Self', b) = PyInt(0)
              /\ \A c \in CatalogIds(Self) \ {b} :
                     /\ calculate_profitability_score(Self', c)
                            = calculate_profitability_score(Self, c)
                     /\ calculate_expected_fill(Self', c)
                            = calculate_expected_fill(Self, c)
                     /\ calculate_days_since_last_visit(Self', c)
                            = calculate_days_since_last_visit(Self, c)]_vars

\* C8: in every reachable ledger state save_state succeeds and a following
\* load_state reproduces the same last-visit timestamps and histories.
C8_RoundTrip ==
    /\ ~SaveRaises(Self)
    /\ LET s == load_state(Self, SavedState(Self))
       IN  /\ s.last_visit = last_visit
           /\ s.visit_history = visit_history

\* C9 (as stated): the profitability_score carried by every returned entry
\* is at least min_score.
C9_CarriedScoreAtLeastMin ==
    Recommended =>
        \A i \in 1..Len(ret.value) :
            ret.value[i].profitability_score * 10 >= call.arg[2]

\* C9 (amended): every returned box has an unrounded profitability score of
\* at least min_score, the score it carries is that score rounded to one
\* decimal (so at least min_score - 0.05), and when max_count is at least the
\* catalog size every catalog box scoring at least min_score is returned.
C9_RetainsQualifying ==
    Recommended =>
        LET max_boxes == call.arg[1]
            min_score == call.arg[2]
        IN  /\ \A i \in 1..Len(ret.value) :
                   LET score == calculate_profitability_score(
                                    Self, ret.value[i].box_id)
                   IN  /\ score >= InScoreUnit(min_score)
                       /\ ret.value[i].profitability_score
                              = Round1(score, ScoreUnit)
                       /\ ret.value[i].profitability_score * 10
                              >= min_score - 5
            /\ max_boxes >= Len(df) =>
                   \A j \in 1..Len(df) :
                       calculate_profitability_score(Self, df[j].n_boite)
                           >= InScoreUnit(min_score)
                       => \E i \in 1..Len(ret.value) :
                              ret.value[i].box_id = df[j].n_boite

C9_Witness ==
    /\ Recommended
    /\ call.arg[1] >= Len(df)
    /\ \E i \in 1..Len(ret.value) :
           ret.value[i].profitability_score * 10 < call.arg[2]

\* C10: get_recommended_boxes returns at most max_count entries, none when
\* max_count <= 0, and exactly min(max_count, qualifying boxes) otherwise.
C10_TruncatedToMaxCount ==
    Recommended =>
        LET max_boxes == call.arg[1]
            qualifying ==
                Cardinality({j \in 1..Len(df) :
                    calculate_profitability_score(Self, df[j].n_boite)
                        >= InScoreUnit(call.arg[2])})
        IN  /\ max_boxes <= 0 => ret.value = <<>>
            /\ max_boxes >= 0 => Len(ret.value) = Min(max_boxes, qualifying)

\* the position of a box in the catalog
CatalogIndex(box_id) == CHOOSE j \in 1..Len(df) : df[j].n_boite = box_id

\* C11: the list returned by get_recommended_boxes is ordered by
\* non-increasing profitability_score, the same call in the same state
\* returns the same list, and boxes with equal scores come in catalog order.
C11_SortedDeterministic ==
    Recommended =>
        /\ \A i \in 1..(Len(ret.value) - 1) :
               ret.value[i].profitability_score
                   >= ret.value[i + 1].profitability_score
        /\ ret.value
               = get_recommended_boxes(Self, call.arg[1], call.arg[2]).value
        /\ \A i, j \in 1..Len(ret.value) :
               (/\ i < j
                /\ ret.value[i].profitability_score
                       = ret.value[j].profitability_score)
               => CatalogIndex(ret.value[i].box_id)
                      < CatalogIndex(ret.value[j].box_id)

C11_Witness ==
    /\ Recommended
    /\ Len(ret.value) = 2
    /\ ret.value[1].profitability_score = ret.value[2].profitability_score
    /\ now > 0

\* C12: for every catalog box, visited or not, if days keep passing without
\* a visit of it then its profitability score eventually reaches the
\* default threshold min_score = 30.
C12_NoStarvation ==
    \A b \in BoxIds :
        <>(calculate_profitability_score(Self, b) >= InScoreUnit(3000))

\* the days between the previous visit of a box and now; None on a first visit
DaysSincePrevious(box_id) ==
    IF box_id \in DOMAIN last_visit /\ last_visit[box_id] # None
    THEN PyInt(now - last_visit[box_id].v)
    ELSE None

\* C13: every visit recorded in the ledger by mark_visit appends exactly one
\* audit-log record, whose days-since field is the number of days between
\* the box's previous visit and this one (None on the first visit).
C13_OneLogRecordPerVisit ==
    [][(/\ call'.op = "mark_visit"
        /\ visit_history' # visit_history) =>
          /\ Len(log_appended') = 1
          /\ log_appended'[1].days_since_last_visit
                 = DaysSincePrevious(call'.box_id)]_vars

\* C14: the catalog never holds two records with the same id, whatever
\* n_boite values add_box accepted.
C14_UniqueIds ==
    \A i, j \in 1..Len(df) : i # j => df[i].n_boite # df[j].n_boite

\* the ledger holds no visit of the box
NoVisitOnRecord(box_id) ==
    /\ DictGet(visit_history, box_id, <<>>) = <<>>
    /\ DictGet(last_visit, box_id, None) = None

\* C15: for every catalog box with no visit on record, the equity score is
\* 8.0 and the urgency score is min(volume_moyen * 0.8, 8.0), or 3.0 when
\* volume_moyen is unknown or not positive, on every day.
C15_NeverVisitedScores ==
    \A i \in 1..Len(df) :
        NoVisitOnRecord(df[i].n_boite) =>
            LET avg_fill == BoxData(Self, df[i].n_boite)[1].volume_moyen
            IN  /\ calculate_equity_score(Self, df[i].n_boite) = 80
                /\ calculate_urgency_score(Self, df[i].n_boite)
                       = IF avg_fill # NaN /\ avg_fill > 0
                         THEN Min(8 * avg_fill, 800)
                         ELSE 300

\* C16: the equity score is continuous at its breakpoints: a box visited 7
\* days ago scores 3.5 by the 0..7 formula and by the 7..30 formula, and a
\* box visited 30 days ago scores 8.0 by the 7..30 formula and by the >30
\* formula.
C16_EquityContinuous ==
    \A b \in DOMAIN last_visit :
        LET days_since == calculate_days_since_last_visit(Self, b)
        IN  /\ days_since = PyInt(7) =>
                   /\ calculate_equity_score(Self, b) = 35
                   /\ EquityUpTo7(7) = 35
                   /\ Equity7To30(7) = 35
            /\ days_since = PyInt(30) =>
                   /\ calculate_equity_score(Self, b) = 80
                   /\ Equity7To30(30) = 80
                   /\ EquityOver30(30) = 80

\* the engine read with the clock set back by up to MaxSkew days
SkewedSelves ==
    {[Self EXCEPT !.now = now - k] : k \in 0..(IF now = 0 THEN MaxSkew ELSE 0)}

\* C17: for every box with valid attributes and every integer number of
\* days since the last visit, or none, the profitability score is in
\* [0, 130], the expected fill in [0, 10], the urgency score in [0, 10] and
\* the equity score in [0, 15].
C17_ScoreRanges ==
    \A s \in SkewedSelves : \A b \in CatalogIds(s) :
        calculate_days_since_last_visit(s, b) # Raise =>
            /\ ComputeProfitability(s, b) \in 0..(130 * ScoreUnit)
            /\ calculate_profitability_score(s, b) \in 0..(130 * ScoreUnit)
            /\ calculate_expected_fill(s, b) \in 0..(10 * ExpectedUnit)
            /\ calculate_urgency_score(s, b) \in 0..1000
            /\ calculate_equity_score(s, b) \in 0..150

C17_Witness ==
    /\ now = MaxDays
    /\ \E b \in CatalogIds(Self) :
           /\ calculate_equity_score(Self, b) = 150
           /\ calculate_urgency_score(Self, b) = 1000
           /\ calculate_expected_fill(Self, b) = 10 * ExpectedUnit
           /\ calculate_profitability_score(Self, b) = 130 * ScoreUnit
    /\ \E b \in CatalogIds(Self) :
           calculate_days_since_last_visit(Self, b) = None

\* C18: for every catalog box, in any ledger state,
\* calculate_profitability_score returns a value between 0 and 100.
C18_ScoreAtMost100 ==
    \A i \in 1..Len(df) :
        /\ calculate_profitability_score(Self, df[i].n_boite) >= 0
        /\ calculate_profitability_score(Self, df[i].n_boite) <= 100 * ScoreUnit

\* the data of an add_box or update_box call has a missing or malformed field
Malformed(op, box_data) ==
    IF op = "add_box"
    THEN \/ ~(required_fields \subseteq DOMAIN box_data)
         \/ ~IntConvertible(box_data["n_boite"])
         \/ ~FloatConvertible(box_data["volume_moyen"])
    ELSE /\ "volume_moyen" \in DOMAIN box_data
         /\ ~IsNumber(box_data["volume_moyen"])

\* C19: an add_box or update_box call whose data has a missing or malformed
\* field reports failure, and a call that fails or carries a malformed value
\* leaves the catalog, the ledger and the score cache as they were.
C19_AllOrNothing ==
    [][call'.op \in {"add_box", "update_box"} =>
          /\ Malformed(call'.op, call'.arg) => ret'.status = "False"
          /\ (Malformed(call'.op, call'.arg) \/ ret'.status = "False")
                 => EngineUnchanged]_vars

\* load_state cannot load the file as a whole
LoadFails(file) ==
    \/ file.kind # "json"
    \/ BadVisits(file) # {}
    \/ BadHistory(file) # {}

\* C20: when load_state fails (file missing, unreadable, malformed timestamp
\* or shape) the ledger afterwards is empty: last_visit and visit_history
\* are both empty.
C20_FailedLoadEmptyLedger ==
    [][(call'.op = "init_optimizer" /\ LoadFails(state_file)) =>
          /\ last_visit' = EmptyDict
          /\ visit_history' = EmptyDict]_vars

\* C21: when the score cache is INVALID, a read (get_recommended_boxes, or
\* calculate_profitability_score through get_box_details) rebuilds it:
\* after the read the cache is VALID and holds a snapshot of every catalog
\* box.
C21_ReadRebuildsCache ==
    [][(/\ ~cache_valid
        /\ call'.op \in {"get_recommended_boxes", "get_box_details"}
        /\ ret'.status = "ok") =>
          /\ cache_valid'
          /\ DOMAIN score_cache' = CatalogIds(Self')]_vars

\* C22: every successful add_box, update_box and remove_box leaves the
\* validity flag false and the cache without any snapshot.
C22_MutationDropsCache ==
    [][(/\ call'.op \in {"add_box", "update_box", "remove_box"}
        /\ ret'.status = "True") =>
          /\ ~cache_valid'
          /\ score_cache' = EmptyDict]_vars

\* C23: immediately after mark_visit(b) the validity flag is false and the
\* cache holds exactly one snapshot, the one of b, whose fields equal a
\* fresh computation from the post-visit ledger (days 0, equity 0.0); an
\* entry left by an earlier visit of another box is gone.
C23_VisitCachesOneBox ==
    [][(call'.op = "mark_visit" /\ ret'.status = "ok") =>
          LET b == call'.box_id
              snapshot == score_cache'[b]
          IN  /\ ~cache_valid'
              /\ DOMAIN score_cache' = {b}
              /\ snapshot.days_since_last_visit = PyInt(0)
              /\ snapshot.equity_score = 0
              /\ snapshot.fill_score = calculate_fill_score_default(Self', b)
              /\ snapshot.urgency_score = calculate_urgency_score(Self', b)
              /\ snapshot.expected_fill = calculate_expected_fill(Self', b)
              /\ snapshot.profitability_score
                     = ComputeProfitability(Self', b)]_vars

\* a second box was visited while the cache held the snapshot of a first one
C23_Witness ==
    /\ call.op = "mark_visit"
    /\ ret.status = "ok"
    /\ call.box_id \in CatalogIds(Self)
    /\ DOMAIN score_cache = {call.box_id}
    /\ \E c \in DOMAIN last_visit :
           c # call.box_id /\ last_visit[c] = DateTime(now)

\* the history on record of a box; none on record counts as empty
HistoryOf(history, box_id) == DictGet(history, box_id, <<>>)

IsPrefix(s, t) == Len(s) <= Len(t) /\ SubSeq(t, 1, Len(s)) = s

\* C24: visit history is append-only. Across every step that is not a reset,
\* not a load and not the removal of that box, the history of a box before
\* the step is a prefix of its history after it; a mark_visit(b) lengthens
\* the history of b by exactly one event and that of no other box.
C24_AppendOnly ==
    [][call'.op \notin {"reset_visits", "init_optimizer"} =>
         \A b \in BoxIds :
            ~(call'.op = "remove_box" /\ call'.box_id = b) =>
               /\ IsPrefix(HistoryOf(visit_history, b),
                           HistoryOf(visit_history', b))
               /\ (call'.op = "mark_visit" /\ ret'.status = "ok") =>
                      Len(HistoryOf(visit_history', b))
                        = Len(HistoryOf(visit_history, b))
                          + (IF b = call'.box_id THEN 1 ELSE 0)]_vars

\* a visit was appended to a history that already held events
C24_Witness ==
    /\ call.op = "mark_visit"
    /\ ret.status = "ok"
    /\ Len(HistoryOf(visit_history, call.box_id)) >= 2

\* C25: the ledger is written only by visit marking: add_box, update_box,
\* get_recommended_boxes and get_box_details leave both ledger maps as they
\* were, key sets and stored values.
C25_LedgerFrame ==
    [][call'.op \in {"add_box", "update_box", "get_recommended_boxes",
                     "get_box_details"} =>
          /\ last_visit' = last_visit
          /\ visit_history' = visit_history]_vars

\* C27: for every box and every state, the snapshot stored by the full
\* recompute (_precompute_all_scores) equals the snapshot stored by the
\* single-box recompute (_recalculate_box_scores); the fill_score field does
\* not depend on the observations of other boxes.
C27_SnapshotPerBox ==
    LET self == invalidate_cache(Self)
    IN  \A b \in CatalogIds(Self) :
           precompute_all_scores(self).score_cache[b]
             = recalculate_box_scores(self, b).score_cache[b]

\* the visited boxes of an engine, with their whole days since the visit
VisitedDays(s) ==
    {<<b, calculate_days_since_last_visit(s, b).v>> :
        b \in {c \in CatalogIds(s) :
                  calculate_days_since_last_visit(s, c).k = "int"}}

\* C28 as stated: for a visited box the urgency score is at least 1.0 up to
\* one day after the visit, and at least 2.0 up to three days after it, days
\* 0 and 1 included.
C28_FloorTwoFromDay0 ==
    \A s \in SkewedSelves : \A v \in VisitedDays(s) :
        /\ v[2] <= 1 => calculate_urgency_score(s, v[1]) >= 100
        /\ v[2] <= 3 => calculate_urgency_score(s, v[1]) >= 200

\* C28, amended: the two floors apply to disjoint ranges of days. Up to one
\* day after the visit the urgency score is exactly 1.0; two or three days
\* after it the score is at least 2.0.
C28_UrgencyFloors ==
    \A s \in SkewedSelves : \A v \in VisitedDays(s) :
        /\ v[2] <= 1 => calculate_urgency_score(s, v[1]) = 100
        /\ (v[2] >= 2 /\ v[2] <= 3) =>
               calculate_urgency_score(s, v[1]) >= 200

\* three days after a visit the floor of 2.0 lifts the logistic value
C28_Witness ==
    \E v \in VisitedDays(Self) :
        /\ v[2] = 3
        /\ Logistic(3) < 200
        /\ calculate_urgency_score(Self, v[1]) = 200

\* C29: for a visited box the urgency score never decreases as the days
\* since the last visit grow: urgency(d + 1) >= urgency(d) for every d >= 0.
C29_UrgencyMonotone ==
    [][now' = now + 1 =>
          \A v \in VisitedDays(Self) :
              calculate_urgency_score(Self', v[1])
                >= calculate_urgency_score(Self, v[1])]_vars

\* C30: top-N correctness of get_recommended_boxes. No catalog box that
\* qualifies (score >= min_score) and is left out of the returned list has a
\* strictly higher profitability score than a box of the returned list, for
\* every max_boxes, scores that differ below the rounding included.
C30_TopN ==
    (call.op = "get_recommended_boxes" /\ ret.status = "ok") =>
        LET min_score == call.arg[2]
            returned == {ret.value[i].box_id : i \in 1..Len(ret.value)}
            left_out == {b \in CatalogIds(Self) \ returned :
                            calculate_profitability_score(Self, b)
                              >= InScoreUnit(min_score)}
        IN  \A out \in left_out : \A kept \in returned :
                calculate_profitability_score(Self, out)
                  <= calculate_profitability_score(Self, kept)

\* C26: two mark_visit requests for the same box handled concurrently do
\* not interleave their writes of the ledger: once both are done, both visit
\* events are in the history of the box and last_visit is the later of the
\* two timestamps.
C26_ConcurrentVisits ==
    (/\ \A t \in Threads : threads[t].pc = "done"
     /\ threads[1].box_id = threads[2].box_id
     /\ threads[1].stamp # None /\ threads[2].stamp # None) =>
        LET box_id == threads[1].box_id
        IN  /\ Len(HistoryOf(visit_history, box_id)) = 2
            /\ last_visit[box_id]
                 = DateTime(Max(threads[1].stamp.v, threads[2].stamp.v))

====
